---- MODULE Spec2Model ----
(***************************************************************************)
(* Storage Node (start_dpu_server / handle_client) and Compute Node        *)
(* (run_host_client / send_query_and_get_result) of selection/run.py.      *)
(*                                                                         *)
(* Text is a sequence of tokens; a token stands for a run of characters    *)
(* ("query6_", ".sql", "lineitem", a digit, ...).  Times are ticks of      *)
(* 0.00005 s, so that the "%.4f" formatting of the logs is a rounding.     *)
(* The CSV rows carry the columns that depend on the handling of the       *)
(* query; the columns that only report a clock or CPU-time reading         *)
(* (CPUUsage and WallClockTime of the Storage Node, DataTransferTime and   *)
(* CPUUsage of the Compute Node, and the data_time they come from) are     *)
(* readings of the environment that no branch of the program tests, and    *)
(* are not part of the rows here.                                          *)
(***************************************************************************)
EXTENDS Integers, Sequences, FiniteSets, TLC

\* ------------------------------------------------------------------ bounds
MaxFiles == 2      \* matching query files in the query directory
MaxPeers == 2      \* connections of clients other than the Compute Node
MaxRows  == 1      \* rows a query returns
MaxDur   == 1      \* ticks a measured interval lasts
MaxArgLen == 3     \* characters of the --ScaleFactor argument

\* ------------------------------------------------------- program constants
BaseRows   == 6001215     \* run.py:228
BaseRows10 == 60012150    \* run.py:230
RecvSize   == 4096        \* run.py:206

cpu_count  == 2           \* run.py:168, psutil.cpu_count(logical=True)

\* -------------------------------------------------------------------- text
\* Number of bytes a token stands for.
TokLen(t) ==
    CASE t = "query6_"  -> 7
      [] t = ".sql"     -> 4
      [] t = ".txt"     -> 4
      [] t = "lineitem" -> 8
      [] t = "LINEITEM" -> 8
      [] t = "orders"   -> 6
      [] t = "select"   -> 6
      [] t = "notes"    -> 5
      [] t = "pad"      -> 4090
      [] OTHER          -> 1

\* Rank of a token in the order str comparison gives (by code point, and the
\* tokens are prefix-free): " " < "." < digits < upper case < lower case.
TokRank(t) ==
    CASE t = " "        -> 1
      [] t = ".sql"     -> 2
      [] t = ".txt"     -> 3
      [] t = "0"        -> 4
      [] t = "1"        -> 5
      [] t = "2"        -> 6
      [] t = "7"        -> 7
      [] t = "LINEITEM" -> 8
      [] t = "lineitem" -> 9
      [] t = "notes"    -> 10
      [] t = "orders"   -> 11
      [] t = "pad"      -> 12
      [] t = "query6_"  -> 13
      [] t = "select"   -> 14
      [] OTHER          -> 15

RECURSIVE ByteLen(_)
ByteLen(s) == IF s = <<>> THEN 0 ELSE TokLen(Head(s)) + ByteLen(Tail(s))

\* str.lower()
LowerTok(t) == IF t = "LINEITEM" THEN "lineitem" ELSE t
Lower(s) == [i \in 1..Len(s) |-> LowerTok(s[i])]

\* str.strip()
RECURSIVE LStrip(_)
LStrip(s) == IF s # <<>> /\ Head(s) = " " THEN LStrip(Tail(s)) ELSE s
RECURSIVE RStrip(_)
RStrip(s) ==
    IF s # <<>> /\ s[Len(s)] = " " THEN RStrip(SubSeq(s, 1, Len(s) - 1)) ELSE s
Strip(s) == RStrip(LStrip(s))

\* sub in s, for a one-token sub
Contains(s, t) == \E i \in 1..Len(s) : s[i] = t

\* s.find(t, from): 1-based index of the first occurrence at or after from,
\* 0 when there is none (Python's -1).
Find(s, t, from) ==
    IF \E i \in from..Len(s) : s[i] = t
    THEN CHOOSE i \in from..Len(s) :
             s[i] = t /\ \A j \in from..(i - 1) : s[j] # t
    ELSE 0

\* bytes.decode("utf-8"): fails on a byte sequence that is not UTF-8
Decodable(data) == ~Contains(data, "0xff")

\* str < str
RECURSIVE LexLess(_, _)
LexLess(a, b) ==
    IF b = <<>> THEN FALSE
    ELSE IF a = <<>> THEN TRUE
    ELSE IF Head(a) = Head(b) THEN LexLess(Tail(a), Tail(b))
    ELSE TokRank(Head(a)) < TokRank(Head(b))

\* Variant: the names ordered by length first (the numeric order of the file
\* numbers).
RECURSIVE SortNamesByLength(_)
SortNamesByLength(S) ==
    IF S = {} THEN <<>>
    ELSE LET m == CHOOSE x \in S : \A y \in S :
                      \/ x = y
                      \/ Len(x) < Len(y)
                      \/ Len(x) = Len(y) /\ LexLess(x, y)
         IN  <<m>> \o SortNamesByLength(S \ {m})

\* list.sort() of a list of distinct names
RECURSIVE SortNames(_)
SortNames(S) ==
    IF S = {} THEN <<>>
    ELSE LET m == CHOOSE x \in S : \A y \in S : x = y \/ LexLess(x, y)
         IN  <<m>> \o SortNames(S \ {m})

\* Variant: the prefix test alone.
MatchesPrefix(f) == Len(f) >= 1 /\ f[1] = "query6_"

\* f.startswith("query6_") and f.endswith(".sql"), line 345
Matches(f) == Len(f) >= 2 /\ f[1] = "query6_" /\ f[Len(f)] = ".sql"

\* ------------------------------------------------------------ handle_client
\* Variant: an empty identifier is taken as well.
QueryIdMaybeEmpty(query) ==
    IF Contains(query, "query6_")
    THEN LET start_idx == Find(query, "query6_", 1) + 1
             end_idx   == Find(query, ".sql", start_idx)
         IN  IF end_idx >= start_idx
             THEN SubSeq(query, start_idx, end_idx - 1)
             ELSE <<"unknown">>
    ELSE <<"unknown">>

\* The query identifier of lines 211-217.
QueryId(query) ==
    IF Contains(query, "query6_")
    THEN LET start_idx == Find(query, "query6_", 1) + 1
             end_idx   == Find(query, ".sql", start_idx)
         IN  IF end_idx > start_idx
             THEN SubSeq(query, start_idx, end_idx - 1)
             ELSE <<"unknown">>
    ELSE <<"unknown">>

\* Variant: the table name looked for in the query as received, not in its
\* lower-case form.
ScannedRowsEstimateCaseSensitive(query, sf) ==
    IF Contains(query, "lineitem")
    THEN IF sf = 1 THEN BaseRows
         ELSE IF sf = 10 THEN BaseRows10
         ELSE BaseRows * sf
    ELSE 0

\* The scanned-row estimate of lines 223-232.
ScannedRowsEstimate(query, sf) ==
    IF Contains(Lower(query), "lineitem")
    THEN IF sf = 1 THEN BaseRows
         ELSE IF sf = 10 THEN BaseRows10
         ELSE BaseRows * sf
    ELSE 0

\* pickle.dumps of the payload dictionary: a byte string that ends with the
\* STOP opcode.
Pickle(rows, scanned, qtime) ==
    << [tag |-> "rows", val |-> rows],
       [tag |-> "scanned_rows", val |-> scanned],
       [tag |-> "query_time", val |-> qtime],
       [tag |-> "STOP", val |-> 0] >>

\* pickle.loads succeeds on a complete pickle only.
Unpicklable(bytes) == Len(bytes) = 4 /\ bytes[4].tag = "STOP"

\* "%.4f" of a time in ticks of 0.00005 s, in units of 0.0001 s.
Fmt4(t) == (t + 1) \div 2

\* "%.2f" of the CPU percentage of lines 265-268, in hundredths of a percent.
CpuPct(cpu, wall, ncpu) ==
    IF wall > 0 THEN (cpu * 10000) \div (wall * ncpu) ELSE 0

\* --------------------------------------------------------------------- main
\* The --ScaleFactor argument is a string of characters; "x" stands for any
\* character that is no part of a number.
Digits == {"0", "1", "3", "5"}
ArgChars == Digits \cup {"-", ".", "x"}
Args == UNION { [1..n -> ArgChars] : n \in 0..MaxArgLen }

DigitVal(ch) ==
    CASE ch = "0" -> 0
      [] ch = "1" -> 1
      [] ch = "3" -> 3
      [] ch = "5" -> 5

\* The value of a string of digits.
RECURSIVE DigitsVal(_)
DigitsVal(s) ==
    IF s = <<>> THEN 0
    ELSE 10 * DigitsVal(SubSeq(s, 1, Len(s) - 1)) + DigitVal(s[Len(s)])

RECURSIVE Pow10(_)
Pow10(n) == IF n = 0 THEN 1 ELSE 10 * Pow10(n - 1)

Negative(s) == s # <<>> /\ s[1] = "-"
Unsigned(s) == IF Negative(s) THEN Tail(s) ELSE s

\* int(s) returns: an optional sign and one or more digits.
IntParses(s) ==
    /\ Unsigned(s) # <<>>
    /\ \A i \in 1..Len(Unsigned(s)) : Unsigned(s)[i] \in Digits
IntValue(s) ==
    IF Negative(s) THEN 0 - DigitsVal(Unsigned(s)) ELSE DigitsVal(Unsigned(s))

\* float(s) returns: an optional sign, digits with at most one point among
\* them, and one digit at least.  Its value is kept as num / den.
FloatParses(s) ==
    LET u == Unsigned(s) IN
    /\ \A i \in 1..Len(u) : u[i] \in Digits \cup {"."}
    /\ \E i \in 1..Len(u) : u[i] \in Digits
    /\ Cardinality({i \in 1..Len(u) : u[i] = "."}) <= 1
FloatValue(s) ==
    LET u      == Unsigned(s)
        point  == Find(u, ".", 1)
        digits == SelectSeq(u, LAMBDA ch : ch # ".")
        scale  == IF point = 0 THEN 0 ELSE Len(u) - point
        n      == DigitsVal(digits)
    IN  [num |-> IF Negative(s) THEN 0 - n ELSE n, den |-> Pow10(scale)]

\* Lines 461-465: int(args.ScaleFactor), 1 when it raises.
MainScaleFactor(arg) == IF IntParses(arg) THEN IntValue(arg) ELSE 1

\* Lines 79-86: float(scale_factor), 1 when it is below 1 or float raises
\* ValueError.
GenScaleFactor(arg) ==
    IF FloatParses(arg)
    THEN IF FloatValue(arg).num < FloatValue(arg).den
         THEN [num |-> 1, den |-> 1]
         ELSE FloatValue(arg)
    ELSE [num |-> 1, den |-> 1]

\* ------------------------------------------------------------------- state
Conns == 1..(MaxFiles + MaxPeers)

VARIABLES
    argScaleFactor, \* args.ScaleFactor, the --ScaleFactor string
    sf_value,       \* generate_tpch_data's scale factor, num / den
    mpc,            \* where main is: parse, generate, start, serving
    scale_factor,   \* main's scale_factor, the argument of start_dpu_server
    srv,            \* the Storage Node process: starting, listening, failed,
                    \*   stopped (KeyboardInterrupt), terminated (SIGTERM)
    dpuHeader,      \* the Storage Node's CSV file holds its header row
    dpuCsv,         \* the data rows of the Storage Node's CSV file
    chan,           \* the TCP connections
    h,              \* the handle_client thread of each connection
    dir,            \* the query directory: "missing" or its set of names
    cpc,            \* where run_host_client is
    query_files,    \* run_host_client's sorted list
    idx,            \* position of the for loop in query_files
    sock,           \* the connection send_query_and_get_result has open, or 0
    received_data,  \* send_query_and_get_result's buffer
    hostHeader,     \* the Compute Node's CSV file holds its header row
    hostCsv,        \* the data rows of the Compute Node's CSV file
    totals,         \* run_host_client's running totals
    skipped,        \* history: the names the loop skipped at line 361
    summary         \* metrics_data, once run_host_client has returned

mvars == <<argScaleFactor, sf_value, mpc>>
svars == <<mvars, scale_factor, srv, dpuHeader, dpuCsv, h>>
cvars == <<dir, cpc, query_files, idx, sock, received_data, hostHeader,
           hostCsv, totals, skipped, summary>>
vars  == <<mvars, scale_factor, srv, dpuHeader, dpuCsv, chan, h, dir, cpc,
           query_files, idx, sock, received_data, hostHeader, hostCsv,
           totals, skipped, summary>>

FreeChan ==
    [st |-> "free", owner |-> "none", file |-> <<>>, sent |-> <<>>,
     req |-> <<>>,
     cli |-> "open", resp |-> <<>>, srv |-> "open"]

\* A thread that has not started or has ended has no locals.
NoLocals(pc) ==
    [pc |-> pc, bound |-> {}, query |-> <<>>, query_id |-> <<>>,
     query_time |-> 0, result_data |-> 0, scanned_rows |-> 0,
     failed |-> FALSE]

\* Lines 250-254: the except clause of handle_client (failed records that it
\* ran).
ExceptClause(hc) ==
    [hc EXCEPT !.pc = "finally", !.failed = TRUE,
               !.query_time = 0, !.result_data = 0, !.scanned_rows = 0,
               !.bound = @ \cup {"query_time", "result_data", "scanned_rows"}]

InFlight == {"recv", "fetching", "finally", "writing"}
Accepted(c) == h[c].pc \notin {"idle", "backlog", "refused"}

\* ------------------------------------------------------- start_dpu_server
\* Lines 173-182: bind, listen and the header row; an error ends the server.
ServerBind ==
    /\ srv = "starting"
    /\ \/ /\ srv' = "listening"
          /\ dpuHeader' = TRUE
       \/ /\ srv' = "failed"
          /\ UNCHANGED dpuHeader
    /\ UNCHANGED <<mvars, scale_factor, dpuCsv, chan, h>>
    /\ UNCHANGED cvars

\* Lines 184-193: accept a connection and start its daemon thread.
Accept(c) ==
    /\ srv = "listening"
    /\ h[c].pc = "backlog"
    /\ h' = [h EXCEPT ![c].pc = "recv"]
    /\ UNCHANGED <<mvars, scale_factor, srv, dpuHeader, dpuCsv, chan>>
    /\ UNCHANGED cvars

\* The process ends: its daemon threads end with it and the kernel closes its
\* sockets (a reset when request bytes were left unread).
KillThreads ==
    [c \in Conns |-> IF h[c].pc \in InFlight THEN NoLocals("killed")
                     ELSE IF h[c].pc = "backlog" THEN NoLocals("refused")
                     ELSE h[c]]
KillSockets ==
    [c \in Conns |->
        IF chan[c].st = "open" /\ chan[c].srv = "open"
        THEN [chan[c] EXCEPT !.srv = IF chan[c].req # <<>> \/ h[c].pc = "backlog"
                                     THEN "reset" ELSE "closed"]
        ELSE chan[c]]

\* Lines 194-199: KeyboardInterrupt in the accept loop.
KeyboardInterrupt ==
    /\ srv = "listening"
    /\ srv' = "stopped"
    /\ h' = KillThreads
    /\ chan' = KillSockets
    /\ UNCHANGED <<mvars, scale_factor, dpuHeader, dpuCsv>>
    /\ UNCHANGED cvars

\* main, lines 491-494: terminate() once run_host_client is over.
Terminate ==
    /\ cpc \in {"returned", "raised"}
    /\ srv \in {"starting", "listening"}
    /\ srv' = "terminated"
    /\ h' = KillThreads
    /\ chan' = KillSockets
    /\ UNCHANGED <<mvars, scale_factor, dpuHeader, dpuCsv>>
    /\ UNCHANGED cvars

\* ------------------------------------------------------------ handle_client
\* Lines 206-235: one recv of at most RecvSize bytes, decode, strip, the query
\* identifier, the scanned-row estimate, and the call of con.execute.
H_Recv(c) ==
    /\ h[c].pc = "recv"
    /\ \/ /\ chan[c].cli = "reset"                 \* recv raises
          /\ h' = [h EXCEPT ![c] = ExceptClause(@)]
          /\ UNCHANGED chan
       \/ /\ chan[c].cli # "reset"
          /\ chan[c].req # <<>>
          /\ \E n \in 1..Len(chan[c].req) :
                LET data == SubSeq(chan[c].req, 1, n)
                    rest == SubSeq(chan[c].req, n + 1, Len(chan[c].req))
                    q    == Strip(data)
                IN  /\ ByteLen(data) <= RecvSize
                    /\ chan' = [chan EXCEPT ![c].req = rest]
                    /\ h' = [h EXCEPT ![c] =
                             IF Decodable(data)
                             THEN [@ EXCEPT
                                     !.pc = "fetching",
                                     !.query = q,
                                     !.query_id = QueryId(q),
                                     !.scanned_rows =
                                         ScannedRowsEstimate(q, scale_factor),
                                     !.bound = @ \cup {"query", "query_id",
                                                       "scanned_rows"}]
                             ELSE ExceptClause(@)]
       \/ /\ chan[c].cli = "closed"                \* empty data: return
          /\ chan[c].req = <<>>
          /\ h' = [h EXCEPT ![c].pc = "finally"]
          /\ UNCHANGED chan
    /\ UNCHANGED <<mvars, scale_factor, srv, dpuHeader, dpuCsv>>
    /\ UNCHANGED cvars

\* Lines 235-248: the engine returns rows, or raises; the payload is pickled
\* and sent, and sendall raises on a connection the peer has reset.
H_ExecEnd(c) ==
    /\ h[c].pc = "fetching"
    /\ \/ /\ chan[c].cli # "reset"
          /\ \E n \in 0..MaxRows, t \in 0..MaxDur :
               /\ h' = [h EXCEPT ![c].pc = "finally",
                                 ![c].result_data = n,
                                 ![c].query_time = t,
                                 ![c].bound = @ \cup {"result_data",
                                                      "query_time"}]
               /\ chan' = [chan EXCEPT ![c].resp =
                              @ \o Pickle(n, h[c].scanned_rows, t)]
       \/ /\ h' = [h EXCEPT ![c] = ExceptClause(@)]
          /\ UNCHANGED chan
    /\ UNCHANGED <<mvars, scale_factor, srv, dpuHeader, dpuCsv>>
    /\ UNCHANGED cvars

\* Variant: the socket is left open.
ClosedChanLeak(ch) == ch

\* A connection both ends have closed keeps nothing but its owner.
ClosedChan(ch) ==
    [FreeChan EXCEPT !.st = "closed", !.owner = ch.owner,
                     !.cli = "closed", !.srv = "closed"]

\* Lines 255-274: conn.close() (a reset when request bytes were left unread),
\* the CPU figures, the log line that reads query_id (reading an unbound
\* local raises out of the handler), and the open of the result file (a
\* failure is caught at line 284 and the row is lost).
H_Finally(c) ==
    /\ h[c].pc = "finally"
    /\ chan' = [chan EXCEPT ![c] =
                   IF chan[c].cli # "open" THEN ClosedChan(@)
                   ELSE [@ EXCEPT !.srv = IF chan[c].req # <<>>
                                          THEN "reset" ELSE "closed"]]
    /\ IF "query_id" \in h[c].bound
       THEN \/ h' = [h EXCEPT ![c].pc = "writing"]
            \/ h' = [h EXCEPT ![c] = NoLocals("done")]
       ELSE h' = [h EXCEPT ![c] = NoLocals("crashed")]
    /\ UNCHANGED <<mvars, scale_factor, srv, dpuHeader, dpuCsv>>
    /\ UNCHANGED cvars

\* The row of lines 276-283; conn records which connection wrote it.
DpuRow(c, hc) ==
    [conn |-> c,
     QueryID |-> hc.query_id,
     ExecutionTime |-> Fmt4(hc.query_time),
     RowsReturned |-> hc.result_data,
     ScannedRows |-> hc.scanned_rows]

\* Lines 275-283: writerow.
H_LogWrite(c) ==
    /\ h[c].pc = "writing"
    /\ dpuCsv' = Append(dpuCsv, DpuRow(c, h[c]))
    /\ h' = [h EXCEPT ![c] = NoLocals("done")]
    /\ UNCHANGED <<mvars, scale_factor, srv, dpuHeader, chan>>
    /\ UNCHANGED cvars

\* ------------------------------------------------------------ environment
\* The names a query directory may hold.
\* query6_<n>.sql for n = 2, 10, 1, 20, ...: the k-th name written.
DigitsOf(k) ==
    CASE k = 1 -> <<"2">>
      [] k = 2 -> <<"1", "0">>
      [] k = 3 -> <<"1">>
      [] OTHER -> <<"2", "0">>
QueryName(k) == <<"query6_">> \o DigitsOf(k) \o <<".sql">>
OtherNames == { <<"query6_", "2", ".txt">>, <<"notes", ".sql">> }

\* The query directories: missing, empty, or k query files among others.
Dirs ==
    { [exists |-> FALSE, names |-> {}], [exists |-> TRUE, names |-> {}] } \cup
    { [exists |-> TRUE, names |-> {QueryName(k) : k \in 1..n} \cup OtherNames] :
        n \in 0..MaxFiles }

\* Lines 137-146: the text generate_queries writes to every query6_<i>.sql
\* (a SELECT over dataset_<i>/lineitem.tbl between blank lines; it does not
\* hold the name of its file).
GeneratedQuery == <<" ", "select", "lineitem", " ">>

\* The texts a query file may hold.
FileTexts ==
    { GeneratedQuery,
      <<"select", "LINEITEM">>,
      <<"select", "orders">>,
      <<"select", "lineitem", "pad">>,
      <<" ">> }

\* The bytes another client may send.
PeerPayloads ==
    { <<>>, <<"0xff">>, <<"select", "lineitem">>,
      <<"query6_", "7", ".sql", "orders">>,
      <<"query6_", ".sql">> }

ScaleFactors == {1, 3, 10}

FreeConn == CHOOSE c \in Conns :
                chan[c].st = "free" /\ \A d \in 1..(c - 1) : chan[d].st # "free"

\* A client other than the Compute Node connects and sends its bytes.
PeerConnect(payload) ==
    /\ srv = "listening"
    /\ Cardinality({c \in Conns : chan[c].owner = "peer"}) < MaxPeers
    /\ chan' = [chan EXCEPT ![FreeConn] =
                   [FreeChan EXCEPT !.st = "open", !.owner = "peer",
                                    !.sent = payload, !.req = payload]]
    /\ h' = [h EXCEPT ![FreeConn].pc = "backlog"]
    /\ UNCHANGED <<mvars, scale_factor, srv, dpuHeader, dpuCsv>>
    /\ UNCHANGED cvars

\* That client closes, or resets, its connection.
PeerClose(c, how) ==
    /\ chan[c].st = "open"
    /\ chan[c].owner = "peer"
    /\ chan[c].cli = "open"
    /\ chan' = [chan EXCEPT ![c] = IF chan[c].srv # "open" THEN ClosedChan(@)
                                   ELSE [@ EXCEPT !.cli = how]]
    /\ UNCHANGED svars
    /\ UNCHANGED cvars

\* ---------------------------------------------------------- run_host_client
ZeroTotals ==
    [scanned |-> 0, rows_returned |-> 0, data_size |-> 0,
     query_exec_time |-> 0, executed_count |-> 0]

NoSummary ==
    [set |-> FALSE, ThroughPut |-> [num |-> 0, den |-> 1], execution_time |-> 0,
     cpu_usage |-> 0, total_scanned_rows |-> 0, total_returned_rows |-> 0]

\* Variant: x / y whenever x > 0.
ThroughputUnguarded(x, y) ==
    IF x > 0 THEN [num |-> x, den |-> y] ELSE [num |-> 0, den |-> 1]

\* x / y if y > 0 and x > 0 else 0 (lines 383, 423), kept as a fraction.
Throughput(x, y) ==
    IF y > 0 /\ x > 0 THEN [num |-> x, den |-> y] ELSE [num |-> 0, den |-> 1]

\* Lines 331-356: the header row, listdir (which raises on a missing
\* directory), the filter and the sort.
RunStart ==
    /\ cpc = "start"
    /\ hostHeader' = TRUE
    /\ IF dir.exists
       THEN /\ query_files' = SortNames({f \in dir.names : Matches(f)})
            /\ cpc' = "loop"
       ELSE /\ cpc' = "raised"
            /\ UNCHANGED query_files
    /\ UNCHANGED <<dir, idx, sock, received_data, hostCsv, totals, skipped,
                   summary>>
    /\ UNCHANGED svars
    /\ UNCHANGED chan

\* Lines 359-361: the file is gone; skip it.
ClientSkip ==
    /\ cpc = "loop"
    /\ idx <= Len(query_files)
    /\ idx' = idx + 1
    /\ skipped' = skipped \cup {query_files[idx]}
    /\ UNCHANGED <<dir, cpc, query_files, sock, received_data, hostHeader,
                   hostCsv, totals, summary>>
    /\ UNCHANGED svars
    /\ UNCHANGED chan

\* Lines 363-364: open or read raises (unreadable, or not UTF-8).
ClientReadFail ==
    /\ cpc = "loop"
    /\ idx <= Len(query_files)
    /\ cpc' = "raised"
    /\ UNCHANGED <<dir, query_files, idx, sock, received_data, hostHeader,
                   hostCsv, totals, skipped, summary>>
    /\ UNCHANGED svars
    /\ UNCHANGED chan

\* Lines 375-413: the per-query figures, the running totals and the CSV row.
\* res is what send_query_and_get_result returned.
\* conn, fail and query_wall_diff record the connection used (0: none), how
\* the query failed ("none": it did not) and the round-trip wall time the
\* throughput was computed from.
HostRow(qf, res, query_wall_diff, c) ==
    [conn |-> c,
     fail |-> res.fail,
     query_wall_diff |-> query_wall_diff,
     QueryFile |-> qf,
     ReturnedRows |-> res.rows,
     ScannedRows |-> res.scanned_rows,
     DataSize |-> res.data_size,
     ServerQueryTime |-> Fmt4(res.server_query_time),
     Throughput |-> Throughput(res.scanned_rows, query_wall_diff)]

\* Variant: executed_count counts the queries that did not fail.
AddTotalsCountSucceeded(t, res) ==
    [scanned |-> t.scanned + res.scanned_rows,
     rows_returned |-> t.rows_returned + res.rows,
     data_size |-> t.data_size + res.data_size,
     query_exec_time |-> t.query_exec_time + res.server_query_time,
     executed_count |-> t.executed_count + IF res.fail = "none" THEN 1 ELSE 0]

\* Lines 385-391: the running totals.
AddTotals(t, res) ==
    [scanned |-> t.scanned + res.scanned_rows,
     rows_returned |-> t.rows_returned + res.rows,
     data_size |-> t.data_size + res.data_size,
     query_exec_time |-> t.query_exec_time + res.server_query_time,
     executed_count |-> t.executed_count + 1]

Record(res, c) ==
    /\ \E query_wall_diff \in 0..MaxDur :
          hostCsv' = Append(hostCsv,
                            HostRow(query_files[idx], res, query_wall_diff, c))
    /\ totals' = AddTotals(totals, res)
    /\ idx' = idx + 1

\* Variant: the scanned-row figure of the table is returned with the failure.
FailedResultStale ==
    [fail |-> "connection", rows |-> 0, scanned_rows |-> BaseRows,
     data_size |-> 0, server_query_time |-> 0]

\* Lines 310-312: the value returned after an error in the with block.
FailedResult ==
    [fail |-> "connection", rows |-> 0, scanned_rows |-> 0, data_size |-> 0,
     server_query_time |-> 0]

\* Lines 314-326: unpickle what was received.
Unpack(bytes) ==
    IF Unpicklable(bytes)
    THEN [fail |-> "none", rows |-> bytes[1].val,
          scanned_rows |-> bytes[2].val, data_size |-> Len(bytes),
          server_query_time |-> bytes[3].val]
    ELSE [fail |-> "unpickle", rows |-> 0, scanned_rows |-> 0,
          data_size |-> Len(bytes), server_query_time |-> 0]

\* Lines 363-364 and 297-303: read and strip the file, connect, sendall.  A
\* refused connection is the failed result of line 312.
ClientConnect(text) ==
    /\ cpc = "loop"
    /\ idx <= Len(query_files)
    /\ LET query == Strip(text) IN
       IF srv = "listening"
       THEN /\ chan' = [chan EXCEPT ![FreeConn] =
                          [FreeChan EXCEPT !.st = "open", !.owner = "compute",
                                           !.file = query_files[idx],
                                           !.sent = query, !.req = query]]
            /\ h' = [h EXCEPT ![FreeConn].pc = "backlog"]
            /\ sock' = FreeConn
            /\ received_data' = <<>>
            /\ cpc' = "connected"
            /\ UNCHANGED <<idx, hostCsv, totals>>
       ELSE /\ Record(FailedResult, 0)
            /\ UNCHANGED <<chan, h, sock, received_data, cpc>>
    /\ UNCHANGED <<dir, query_files, hostHeader, skipped, summary>>
    /\ UNCHANGED <<mvars, scale_factor, srv, dpuHeader, dpuCsv>>

\* Lines 305-309: a recv that returns bytes.
ClientRecv ==
    /\ cpc = "connected"
    /\ chan[sock].resp # <<>>
    /\ received_data' = received_data \o chan[sock].resp
    /\ chan' = [chan EXCEPT ![sock].resp = <<>>]
    /\ UNCHANGED <<dir, cpc, query_files, idx, sock, hostHeader, hostCsv,
                   totals, skipped, summary>>
    /\ UNCHANGED svars

\* Variant: the client gives up on a response that has not arrived yet,
\* without waiting for the end of the stream.
ClientEOFEarly ==
    /\ cpc = "connected"
    /\ chan[sock].resp = <<>>
    /\ Record(Unpack(received_data), sock)
    /\ chan' = [chan EXCEPT ![sock] = IF chan[sock].srv # "open"
                                      THEN ClosedChan(@)
                                      ELSE [@ EXCEPT !.cli = "closed"]]
    /\ sock' = 0
    /\ received_data' = <<>>
    /\ cpc' = "loop"
    /\ UNCHANGED <<dir, query_files, hostHeader, skipped, summary>>
    /\ UNCHANGED svars

\* Lines 307-326: recv returns nothing; the with block closes the socket, the
\* bytes are unpickled and the loop body of run_host_client records them.
ClientEOF ==
    /\ cpc = "connected"
    /\ chan[sock].resp = <<>>
    /\ chan[sock].srv = "closed"
    /\ Record(Unpack(received_data), sock)
    /\ chan' = [chan EXCEPT ![sock] = ClosedChan(@)]
    /\ sock' = 0
    /\ received_data' = <<>>
    /\ cpc' = "loop"
    /\ UNCHANGED <<dir, query_files, hostHeader, skipped, summary>>
    /\ UNCHANGED svars

\* Lines 310-312: recv raises; the with block closes the socket.
ClientRecvError ==
    /\ cpc = "connected"
    /\ chan[sock].srv = "reset"
    /\ Record(FailedResult, sock)
    /\ chan' = [chan EXCEPT ![sock] = ClosedChan(@)]
    /\ sock' = 0
    /\ received_data' = <<>>
    /\ cpc' = "loop"
    /\ UNCHANGED <<dir, query_files, hostHeader, skipped, summary>>
    /\ UNCHANGED svars

\* Lines 415-450: the summary.
ClientFinish ==
    /\ cpc = "loop"
    /\ idx > Len(query_files)
    /\ \E overall_wall_time \in 0..MaxDur, cpu \in 0..MaxDur :
          summary' =
              [set |-> TRUE,
               ThroughPut |-> Throughput(totals.scanned, overall_wall_time),
               execution_time |-> overall_wall_time,
               cpu_usage |-> CpuPct(cpu, overall_wall_time, cpu_count),
               total_scanned_rows |-> totals.scanned,
               total_returned_rows |-> totals.rows_returned]
    /\ cpc' = "returned"
    /\ UNCHANGED <<dir, query_files, idx, sock, received_data, hostHeader,
                   hostCsv, totals, skipped>>
    /\ UNCHANGED svars
    /\ UNCHANGED chan

\* --------------------------------------------------------------------- main
\* Lines 461-465: main's scale_factor.
MainParse ==
    /\ mpc = "parse"
    /\ scale_factor' = MainScaleFactor(argScaleFactor)
    /\ mpc' = "generate"
    /\ UNCHANGED <<argScaleFactor, sf_value, srv, dpuHeader, dpuCsv, chan, h>>
    /\ UNCHANGED cvars

\* Line 472: generate_tpch_data(args.ScaleFactor) settles its sf_value.
MainGenerate ==
    /\ mpc = "generate"
    /\ sf_value' = GenScaleFactor(argScaleFactor)
    /\ mpc' = "start"
    /\ UNCHANGED <<argScaleFactor, scale_factor, srv, dpuHeader, dpuCsv, chan,
                   h>>
    /\ UNCHANGED cvars

\* Lines 478-483: the Storage Node process is started with scale_factor.
MainStart ==
    /\ mpc = "start"
    /\ mpc' = "serving"
    /\ UNCHANGED <<argScaleFactor, sf_value, scale_factor, srv, dpuHeader,
                   dpuCsv, chan, h>>
    /\ UNCHANGED cvars

\* The arguments of the scale factors served below.
ServedArgs == { <<"1">>, <<"3">>, <<"1", "0">> }

\* ------------------------------------------------------------ specification
\* The state once main has started the Storage Node.
Init ==
    /\ argScaleFactor \in ServedArgs
    /\ mpc = "serving"
    /\ sf_value = GenScaleFactor(argScaleFactor)
    /\ scale_factor = MainScaleFactor(argScaleFactor)
    /\ srv = "starting"
    /\ dpuHeader = FALSE
    /\ dpuCsv = <<>>
    /\ chan = [c \in Conns |-> FreeChan]
    /\ h = [c \in Conns |-> NoLocals("idle")]
    /\ dir \in Dirs
    /\ cpc = "start"
    /\ query_files = <<>>
    /\ idx = 1
    /\ sock = 0
    /\ received_data = <<>>
    /\ hostHeader = FALSE
    /\ hostCsv = <<>>
    /\ totals = ZeroTotals
    /\ skipped = {}
    /\ summary = NoSummary

\* The Storage Node's own steps.
ServerNext ==
    \/ ServerBind
    \/ \E c \in Conns : Accept(c)
    \/ KeyboardInterrupt
    \/ \E c \in Conns : H_Recv(c)
    \/ \E c \in Conns : H_ExecEnd(c)
    \/ \E c \in Conns : H_Finally(c)
    \/ \E c \in Conns : H_LogWrite(c)

\* main: the Storage Node with the Compute Node as its only client.
Next ==
    \/ ServerNext
    \/ Terminate
    \/ RunStart
    \/ ClientSkip
    \/ ClientReadFail
    \/ \E t \in FileTexts : ClientConnect(t)
    \/ ClientRecv
    \/ ClientEOF
    \/ ClientRecvError
    \/ ClientFinish

Spec == Init /\ [][Next]_vars

\* start_dpu_server on its own, serving whichever clients connect.
InitPeers ==
    /\ Init
    /\ dir = [exists |-> FALSE, names |-> {}]

NextPeers ==
    \/ ServerNext
    \/ \E p \in PeerPayloads : PeerConnect(p)
    \/ \E c \in Conns, how \in {"closed", "reset"} : PeerClose(c, how)

SpecPeers == InitPeers /\ [][NextPeers]_vars

\* main from its start to the start of the Storage Node, for every
\* --ScaleFactor argument.
InitMain ==
    /\ argScaleFactor \in Args
    /\ mpc = "parse"
    /\ sf_value = [num |-> 0, den |-> 1]
    /\ scale_factor = 0
    /\ srv = "starting"
    /\ dpuHeader = FALSE
    /\ dpuCsv = <<>>
    /\ chan = [c \in Conns |-> FreeChan]
    /\ h = [c \in Conns |-> NoLocals("idle")]
    /\ dir = [exists |-> FALSE, names |-> {}]
    /\ cpc = "start"
    /\ query_files = <<>>
    /\ idx = 1
    /\ sock = 0
    /\ received_data = <<>>
    /\ hostHeader = FALSE
    /\ hostCsv = <<>>
    /\ totals = ZeroTotals
    /\ skipped = {}
    /\ summary = NoSummary

NextMain ==
    \/ MainParse
    \/ MainGenerate
    \/ MainStart

SpecMain == InitMain /\ [][NextMain]_vars

\* ================================================================== claims
HandlerPcs == {"idle", "backlog", "refused", "recv", "fetching", "finally",
               "writing", "done", "crashed", "killed"}

TypeOK ==
    /\ scale_factor \in ScaleFactors
    /\ srv \in {"starting", "listening", "failed", "stopped", "terminated"}
    /\ \A c \in Conns : h[c].pc \in HandlerPcs
    /\ cpc \in {"start", "loop", "connected", "returned", "raised"}
    /\ sock \in Conns \cup {0}
    /\ idx \in 1..(Len(query_files) + 1)

RowsOf(c) == {i \in DOMAIN dpuCsv : dpuCsv[i].conn = c}

\* A name of the corpus naming convention, query6_*.sql.
IsQueryFileName(f) == Len(f) >= 2 /\ f[1] = "query6_" /\ f[Len(f)] = ".sql"
QueryFileNames == {f \in dir.names : IsQueryFileName(f)}

\* ---------------------------------------------------------------------- C1
\* C1: once every connection handler has finished, the Storage Node's CSV
\* log holds exactly one data row per accepted connection, whether the
\* handling succeeded or failed.
C1_OneRowPerConnection ==
    (\A c \in Conns : h[c].pc \notin InFlight \cup {"killed"})
        => \A c \in Conns : Accepted(c) => Cardinality(RowsOf(c)) = 1

\* ---------------------------------------------------------------------- C2
\* C2: an error raised in a handler while receiving, decoding, executing or
\* sending is caught inside the handler: no handler ends by an exception,
\* and the row a failed handler is about to write has ExecutionTime 0,
\* RowsReturned 0 and ScannedRows 0.
C2_ErrorsCaughtZeroRecord ==
    \A c \in Conns :
        /\ h[c].pc # "crashed"
        /\ (h[c].pc = "writing" /\ h[c].failed)
              => /\ DpuRow(c, h[c]).ExecutionTime = 0
                 /\ DpuRow(c, h[c]).RowsReturned = 0
                 /\ DpuRow(c, h[c]).ScannedRows = 0

\* ---------------------------------------------------------------------- C3
\* C3 as stated: when run_host_client returns, its CSV log has as many data
\* rows as the directory has matching query files.
C3_RowPerMatchingFile ==
    cpc = "returned" => Len(hostCsv) = Cardinality(QueryFileNames)

\* C3, amended: the rows are written in increasing lexicographic order of
\* file name, every row names a matching file, and when run_host_client
\* returns the rows and the files skipped because they no longer existed
\* together number the matching query files, whatever number of queries
\* failed.
C3_RowsInOrderOnePerExistingFile ==
    /\ \A i, j \in DOMAIN hostCsv :
          i < j => LexLess(hostCsv[i].QueryFile, hostCsv[j].QueryFile)
    /\ \A i \in DOMAIN hostCsv : hostCsv[i].QueryFile \in QueryFileNames
    /\ {hostCsv[i].QueryFile : i \in DOMAIN hostCsv} \cap skipped = {}
    /\ cpc = "returned" =>
          Len(hostCsv) + Cardinality(skipped) = Cardinality(QueryFileNames)

\* Two files processed, "query6_10.sql" before "query6_2.sql", one failed.
C3_Witness ==
    /\ cpc = "returned"
    /\ skipped = {}
    /\ Len(hostCsv) >= 2
    /\ hostCsv[Len(hostCsv) - 1].QueryFile = <<"query6_", "1", "0", ".sql">>
    /\ hostCsv[Len(hostCsv)].QueryFile = <<"query6_", "2", ".sql">>
    /\ \E i \in DOMAIN hostCsv : hostCsv[i].fail # "none"

\* ---------------------------------------------------------------------- C4
\* C4: a query whose connection fails (refused, or a receive error) or
\* whose response does not unpickle (nothing received included) is recorded
\* with rows 0, scanned 0 and server time 0; run_host_client does not raise
\* and goes on to the next file.
C4_FailedQueryStep ==
    LET row == hostCsv'[Len(hostCsv')]
        failing == \/ cpc = "loop" /\ srv # "listening"
                   \/ cpc = "connected" /\ chan[sock].srv = "reset"
                   \/ cpc = "connected" /\ ~Unpicklable(received_data)
    IN  (Len(hostCsv') = Len(hostCsv) + 1 /\ failing)
            => /\ row.ReturnedRows = 0
               /\ row.ScannedRows = 0
               /\ row.ServerQueryTime = 0
               /\ row.QueryFile = query_files[idx]
               /\ cpc' = "loop"
               /\ idx' = idx + 1
               /\ query_files' = query_files

C4_FailedQueryZeroAndContinue == [][C4_FailedQueryStep]_vars

\* A refused connection and an empty response, each followed by the next
\* file, and the run returned.
C4_Witness ==
    /\ cpc = "returned"
    /\ \E i, j \in DOMAIN hostCsv :
          /\ i < j
          /\ hostCsv[i].fail = "unpickle"
          /\ hostCsv[j].fail = "connection"

\* ---------------------------------------------------------------------- C5
\* C5: at no time are two connection handlers both inside
\* con.execute(query).fetchall() on the shared handle.
C5_ExecutionSerialized ==
    Cardinality({c \in Conns : h[c].pc = "fetching"}) <= 1

\* ---------------------------------------------------------------------- C6
\* C6: shutting the Storage Node down never keeps an accepted connection
\* from finishing its handling and appending its row: no handler is cut off
\* in flight.
C6_InFlightHandlersFinish ==
    \A c \in Conns : h[c].pc # "killed"

\* ---------------------------------------------------------------------- C7
ComputeOpen ==
    {c \in Conns : /\ chan[c].owner = "compute"
                   /\ chan[c].st = "open"
                   /\ chan[c].cli = "open"}

\* C7: the Compute Node has at most one connection open at any time, and
\* none while it is between two files (before it opens the next connection
\* the previous one has been closed).
C7_OneOutstandingRequest ==
    /\ Cardinality(ComputeOpen) <= 1
    /\ cpc = "connected" => ComputeOpen = {sock}
    /\ cpc # "connected" => ComputeOpen = {}

\* The second file's connection is open and the first one's is closed.
C7_Witness ==
    /\ cpc = "connected"
    /\ idx = 2
    /\ \E c \in Conns : c # sock /\ chan[c].owner = "compute"
                                  /\ chan[c].st = "closed"

\* ---------------------------------------------------------------------- C8
\* C8: the scanned-row value in a response is, for a query that contains
\* "lineitem" in any letter case, 6001215 times the scale factor (6001215
\* for 1, 60012150 for 10), whatever number of rows the query returned, and
\* 0 for a query that does not.
C8_ScannedRowsInResponse ==
    \A c \in Conns :
        (chan[c].resp # <<>> /\ h[c].pc \in {"finally", "writing"})
            => LET v    == chan[c].resp[2].val
                   refs == \E i \in 1..Len(h[c].query) :
                               h[c].query[i] \in {"lineitem", "LINEITEM"}
               IN  /\ refs => v = 6001215 * scale_factor
                   /\ (refs /\ scale_factor = 1) => v = 6001215
                   /\ (refs /\ scale_factor = 10) => v = 60012150
                   /\ ~refs => v = 0

\* A response with a row and the scale-factor-10 figure for an upper-case
\* table name.
C8_Witness ==
    \E c \in Conns :
        /\ chan[c].resp # <<>>
        /\ h[c].pc = "finally"
        /\ Contains(h[c].query, "LINEITEM")
        /\ chan[c].resp[1].val = MaxRows
        /\ chan[c].resp[2].val = 60012150

\* ---------------------------------------------------------------------- C9
\* C9 as stated: with no matching file, every field of the summary is zero
\* and the CSV log has the header and no data row.
C9_AllFieldsZero ==
    (cpc = "returned" /\ dir.exists /\ QueryFileNames = {})
        => /\ summary.ThroughPut.num = 0
           /\ summary.execution_time = 0
           /\ summary.cpu_usage = 0
           /\ summary.total_scanned_rows = 0
           /\ summary.total_returned_rows = 0
           /\ hostHeader /\ hostCsv = <<>>

\* C9, amended: with no matching file, ThroughPut, total_scanned_rows and
\* total_returned_rows of the summary are zero and the CSV log has the
\* header and no data row (execution_time and cpu_usage are the measured
\* wall time and CPU usage of the run).
C9_CountsZero ==
    (cpc = "returned" /\ dir.exists /\ QueryFileNames = {})
        => /\ summary.set
           /\ summary.ThroughPut.num = 0
           /\ summary.total_scanned_rows = 0
           /\ summary.total_returned_rows = 0
           /\ summary.execution_time >= 0
           /\ summary.cpu_usage >= 0
           /\ hostHeader /\ hostCsv = <<>>

\* run_host_client has returned from a directory that holds only other
\* files.
C9_Witness ==
    /\ cpc = "returned"
    /\ dir.exists
    /\ dir.names # {}
    /\ QueryFileNames = {}
    /\ summary.set

\* --------------------------------------------------------------------- C10
\* C10: when the query directory does not exist, run_host_client does not
\* raise; it returns a zero summary.
C10_MissingDirReturnsZero ==
    ~dir.exists
        => /\ cpc # "raised"
           /\ cpc = "returned" => /\ summary.total_scanned_rows = 0
                                  /\ summary.total_returned_rows = 0

\* --------------------------------------------------------------------- C11
\* C11: the query text a handler decodes and executes is the whole text the
\* Compute Node sent on that connection, for a query of any length
\* (longer than 4096 bytes, or delivered in several segments, included).
C11_WholeQueryReceived ==
    \A c \in Conns :
        (chan[c].owner = "compute" /\ chan[c].st = "open"
                                   /\ h[c].pc = "fetching")
            => h[c].query = chan[c].sent

\* --------------------------------------------------------------------- C12
\* q[i] is the first "query6_" of q and q[j] the first ".sql" after it.
HintAt(q, i, j) ==
    /\ q[i] = "query6_"
    /\ \A k \in 1..(i - 1) : q[k] # "query6_"
    /\ i < j
    /\ q[j] = ".sql"
    /\ \A k \in (i + 1)..(j - 1) : q[k] # ".sql"

\* C12: the query identifier of a handler is the text between the first
\* "query6_" of the received query and the next ".sql" after it when that
\* text is not empty, and "unknown" in every other case (no "query6_", no
\* ".sql" after it, or nothing between them); the identifier does not
\* decide whether the query is executed.
C12_QueryIdentifier ==
    \A c \in Conns :
        "query_id" \in h[c].bound =>
            LET q == h[c].query
                named == \E i, j \in 1..Len(q) : HintAt(q, i, j) /\ j > i + 1
            IN  /\ \A i, j \in 1..Len(q) :
                      (HintAt(q, i, j) /\ j > i + 1)
                          => h[c].query_id = SubSeq(q, i + 1, j - 1)
                /\ ~named => h[c].query_id = <<"unknown">>
                /\ h[c].pc = "fetching" => "scanned_rows" \in h[c].bound

\* One handler has answered a query without the hint under "unknown" while
\* another executes a query under the identifier 7 of its hint.
C12_Witness ==
    \E c, d \in Conns :
        /\ h[c].pc = "finally" /\ ~h[c].failed
        /\ h[c].query = <<"select", "lineitem">>
        /\ h[c].query_id = <<"unknown">>
        /\ chan[c].resp # <<>>
        /\ h[d].pc = "fetching"
        /\ h[d].query_id = <<"7">>

\* --------------------------------------------------------------------- C13
\* C13: with the Storage Node listening, there is no state in which the
\* Compute Node waits in recv for a response while the handler of its
\* connection waits in recv for request bytes (every exchange completes,
\* the one of a file whose text is empty after stripping included).
C13_NoMutualWait ==
    ~ /\ srv = "listening"
      /\ cpc = "connected"
      /\ h[sock].pc = "recv"
      /\ chan[sock].cli = "open" /\ chan[sock].req = <<>>
      /\ chan[sock].srv = "open" /\ chan[sock].resp = <<>>

\* --------------------------------------------------------------------- C14
\* C14: with the Compute Node as the only client, at most one handler is
\* inside con.execute(query).fetchall() at any time, and it is the handler
\* of the connection the Compute Node is waiting on (handlers may overlap
\* in what they do after closing the connection).
C14_OneExecutionPerClient ==
    /\ \A c \in Conns :
          h[c].pc = "fetching" => (cpc = "connected" /\ c = sock)
    /\ \A c, d \in Conns :
          (h[c].pc = "fetching" /\ h[d].pc = "fetching") => c = d

\* The handler of the second query executes while the handler of the first
\* has yet to write its row.
C14_Witness ==
    \E c, d \in Conns :
        /\ c # d
        /\ h[c].pc = "writing"
        /\ h[d].pc = "fetching"
        /\ chan[c].owner = "compute" /\ chan[d].owner = "compute"

\* --------------------------------------------------------------------- C15
\* C15: for a query file query6_<n>.sql written by generate_queries and sent
\* by the Compute Node, the QueryID of the Storage Node's record for that
\* request is n, the number in the name of the file the Compute Node's
\* record names.
C15_QueryIdNamesFile ==
    \A c \in Conns :
        (/\ chan[c].owner = "compute" /\ chan[c].st = "open"
         /\ chan[c].sent = Strip(GeneratedQuery)
         /\ h[c].query = chan[c].sent           \* received whole
         /\ h[c].pc = "writing" /\ ~h[c].failed)
            => <<"query6_">> \o DpuRow(c, h[c]).QueryID \o <<".sql">>
                   = chan[c].file

\* --------------------------------------------------------------------- C16
\* C16: the record of the Storage Node and the record of the Compute Node
\* for the same request agree: ReturnedRows equals RowsReturned and the two
\* ScannedRows are equal (so a request one node records as failed with
\* zeros is not a success with non-zero values in the other's record).
C16_RecordsAgree ==
    \A i \in DOMAIN dpuCsv, j \in DOMAIN hostCsv :
        dpuCsv[i].conn = hostCsv[j].conn
            => /\ hostCsv[j].ReturnedRows = dpuCsv[i].RowsReturned
               /\ hostCsv[j].ScannedRows = dpuCsv[i].ScannedRows

\* --------------------------------------------------------------------- C17
RECURSIVE SumSeq(_)
SumSeq(s) == IF s = <<>> THEN 0 ELSE Head(s) + SumSeq(Tail(s))

\* C17: after each loop iteration of run_host_client the running totals are
\* the sums over the data rows written so far (rows returned, scanned rows
\* and data size; executed_count is the number of rows), and the summary's
\* total_scanned_rows and total_returned_rows are those sums over the whole
\* run.
C17_TotalsAreSumsOfRows ==
    LET returned == SumSeq([i \in DOMAIN hostCsv |-> hostCsv[i].ReturnedRows])
        scanned  == SumSeq([i \in DOMAIN hostCsv |-> hostCsv[i].ScannedRows])
        size     == SumSeq([i \in DOMAIN hostCsv |-> hostCsv[i].DataSize])
    IN  /\ totals.rows_returned = returned
        /\ totals.scanned = scanned
        /\ totals.data_size = size
        /\ totals.executed_count = Len(hostCsv)
        /\ summary.set => /\ summary.total_scanned_rows = scanned
                          /\ summary.total_returned_rows = returned

\* run_host_client has returned after a query that failed and a query that
\* returned a row and a scanned-row figure.
C17_Witness ==
    /\ cpc = "returned" /\ summary.set
    /\ Len(hostCsv) = 2
    /\ hostCsv[1].fail # "none"
    /\ hostCsv[2].fail = "none"
    /\ hostCsv[2].ReturnedRows = 1
    /\ hostCsv[2].ScannedRows > 0
    /\ summary.total_scanned_rows > 0

\* --------------------------------------------------------------------- C18
\* C18: writes to the Storage Node's result log are serialized: at no time
\* do two handlers both have the log file open to append their row,
\* however many handlers run concurrently.
C18_LogWritesSerialized ==
    \A c, d \in Conns :
        (h[c].pc = "writing" /\ h[d].pc = "writing") => c = d

\* --------------------------------------------------------------------- C19
\* C19: for every --ScaleFactor argument, the scale factor main passes to
\* the Storage Node (and so to its scanned-row estimator) equals the scale
\* factor generate_tpch_data generates the dataset with.
C19_SameScaleFactor ==
    mpc = "serving" => scale_factor * sf_value.den = sf_value.num

\* --------------------------------------------------------------------- C20
\* C20: the throughput of a row of the Compute Node's log is the row's
\* scanned rows divided by the round-trip wall time of its query when both
\* are positive and 0 otherwise; every failed query has scanned rows 0 and
\* throughput 0.
C20_PerQueryThroughput ==
    \A i \in DOMAIN hostCsv :
        LET r == hostCsv[i]
            positive == r.ScannedRows > 0 /\ r.query_wall_diff > 0
        IN  /\ positive => /\ r.Throughput.num = r.ScannedRows
                           /\ r.Throughput.den = r.query_wall_diff
            /\ ~positive => r.Throughput = [num |-> 0, den |-> 1]
            /\ r.fail # "none" => /\ r.ScannedRows = 0
                                  /\ r.Throughput.num = 0

\* A failed query that took time, logged with throughput 0, and then a
\* query answered with a scanned-row figure over a positive wall time.
C20_Witness ==
    /\ Len(hostCsv) = 2
    /\ hostCsv[1].fail # "none"
    /\ hostCsv[1].query_wall_diff > 0
    /\ hostCsv[1].Throughput.num = 0
    /\ hostCsv[2].ScannedRows > 0
    /\ hostCsv[2].query_wall_diff > 0
    /\ hostCsv[2].Throughput.num = hostCsv[2].ScannedRows

====
